---- MODULE Spec2Model ----
(***************************************************************************)
(* Model of demos/cyber_netflow/cyber_2cycle_threat_detection.ipynb:       *)
(* a data frame of netflow records is bulk-inserted into an edge frame     *)
(* whose endpoints live in a keyed vertex frame, and one MATCH query for   *)
(* a constrained two-cycle is run over the loaded graph.                   *)
(***************************************************************************)
EXTENDS Bags, FiniteSets, Integers, Sequences, TLC

\* ---------------------------------------------------------------- bounds
MaxRows == 3    \* rows of the data frame read from the netflow file
MaxJobs == 2    \* executions of the query cell

\* ------------------------------------------------- input value domains
Addrs == {"A", "B"}
\* The endpoint pairs of the records: both directions between two hosts and
\* a self-loop (B -> B is the mirror image of A -> A).
AddrPairs == {<<"A", "B">>, <<"B", "A">>, <<"A", "A">>}
Times == {0, 1}
Durs == {1, 10, 11}
Protos == {"tcp", "icmp", "udp"}

\* One netflow record; only the columns the query reads are kept.
Rows ==
  {[StartTime |-> t, Dur |-> d, Proto |-> p, SrcAddr |-> sd[1], DstAddr |-> sd[2]] :
     t \in Times, d \in Durs, p \in Protos, sd \in AddrPairs}

RECURSIVE BagsUpTo(_)
BagsUpTo(n) ==
  IF n = 0 THEN {EmptyBag}
  ELSE LET S == BagsUpTo(n - 1)
       IN  S \cup {b (+) SetToBag({r}) : b \in S, r \in Rows}

\* The data frames pd.read_csv can produce (row order is not observable):
\* a frame of fewer than MaxRows rows, possibly with one more row.
IsDataFrame(d) ==
  \E b \in BagsUpTo(MaxRows - 1) :
    \/ d = b
    \/ \E r \in Rows : d = b (+) SetToBag({r})

VARIABLES df, ip, netflow, job_id, matches, result_set, pc

vars == <<df, ip, netflow, job_id, matches, result_set, pc>>

\* ------------------------------------------------------------ the graph
\* The edge instances of an edge frame: a record and its copy number.
Edges(frame) == UNION {{<<r, i>> : i \in 1..frame[r]} : r \in DOMAIN frame}

Source(e) == e[1].SrcAddr
Target(e) == e[1].DstAddr

\* The keys a data frame mentions through source_key and target_key.
MentionedKeys(rows) ==
  {r.SrcAddr : r \in DOMAIN rows} \cup {r.DstAddr : r \in DOMAIN rows}

\* One vertex per mention: what a frame without a key would hold.
AutoVerticesPerMention(V, rows) ==
  LET ks == MentionedKeys(rows)
  IN  V (+) [k \in ks |->
              BagCardinality([r \in {x \in DOMAIN rows : x.SrcAddr = k} |-> rows[r]])
            + BagCardinality([r \in {x \in DOMAIN rows : x.DstAddr = k} |-> rows[r]])]

\* Vertices are created for any address mentioned as source or target of an
\* inserted edge; the vertex frame is keyed by IPAddr.
AutoVertices(V, rows) == V (+) SetToBag(MentionedKeys(rows) \ BagToSet(V))

\* ------------------------------------------------------------ the query
duration_ratio_min == 10
proto_first == "tcp"
proto_second == "icmp"

\* e2.Dur / 10 on FLOAT columns: an exact quotient, kept as a fraction.
Div(x, k) == <<x, k>>
\* x <= q for a fraction q with positive denominator.
LessEq(x, q) == x * q[2] <= q[1]
\* x < q for a fraction q with positive denominator.
Less(x, q) == x * q[2] < q[1]

\* MATCH (a)-[e1]->(b)-[e2]->(a)
Pattern(V, E) ==
  UNION {UNION {{[a |-> a, e1 |-> e1, b |-> Target(e1), e2 |-> e2] :
                   e2 \in {x \in E : Source(x) = Target(e1) /\ Target(x) = a}} :
                e1 \in {x \in E : Source(x) = a /\ Target(x) \in V}} :
         a \in V}

\* The WHERE clause with <= for the duration test.
WhereLeq(e1, e2) ==
  /\ e1[1].StartTime <= e2[1].StartTime
  /\ LessEq(e1[1].Dur, Div(e2[1].Dur, duration_ratio_min))
  /\ e1[1].Proto = proto_first
  /\ e2[1].Proto = proto_second

\* The WHERE clause without the test of e2.Proto.
WhereNoProtoSecond(e1, e2) ==
  /\ e1[1].StartTime <= e2[1].StartTime
  /\ Less(e1[1].Dur, Div(e2[1].Dur, duration_ratio_min))
  /\ e1[1].Proto = proto_first

\* The WHERE clause with OR for AND.
WhereOr(e1, e2) ==
  \/ e1[1].StartTime <= e2[1].StartTime
  \/ Less(e1[1].Dur, Div(e2[1].Dur, duration_ratio_min))
  \/ e1[1].Proto = proto_first
  \/ e2[1].Proto = proto_second

\* WHERE e1.StartTime <= e2.StartTime AND e1.Dur < (e2.Dur / 10)
\*   AND e1.Proto = 'tcp' AND e2.Proto = 'icmp'
Where(e1, e2) ==
  /\ e1[1].StartTime <= e2[1].StartTime
  /\ Less(e1[1].Dur, Div(e2[1].Dur, duration_ratio_min))
  /\ e1[1].Proto = proto_first
  /\ e2[1].Proto = proto_second

\* RETURN a.IPAddr AS A, e1.StartTime AS timestamp1, e1.Dur AS dur1,
\*        b.IPAddr AS B, e2.StartTime AS timestamp2, e2.Dur AS dur2
Return(m) ==
  [A |-> m.a, timestamp1 |-> m.e1[1].StartTime, dur1 |-> m.e1[1].Dur,
   B |-> m.b, timestamp2 |-> m.e2[1].StartTime, dur2 |-> m.e2[1].Dur]

\* RETURN DISTINCT: one row per distinct projection.
ReturnRowsDistinct(M) == SetToBag({Return(m) : m \in M})

\* The result table: one row per match, equal rows kept.
ReturnRows(M) ==
  [r \in {Return(m) : m \in M} |-> Cardinality({m \in M : Return(m) = r})]

\* The matches of the query over the graph.
Query(V, frame) == {m \in Pattern(BagToSet(V), Edges(frame)) : Where(m.e1, m.e2)}

\* ------------------------------------------------------------- behaviour
Init ==
  /\ IsDataFrame(df)
  /\ ip = EmptyBag
  /\ netflow = EmptyBag
  /\ job_id = 0
  /\ matches = {}
  /\ result_set = EmptyBag
  /\ pc = "schema"

\* netflow.insert(df)
Insert ==
  /\ pc = "schema"
  /\ netflow' = netflow (+) df
  /\ ip' = AutoVertices(ip, df)
  /\ pc' = "loaded"
  /\ UNCHANGED <<df, job_id, matches, result_set>>

\* A query that also deletes the edges it matched.
RunJobDeleting ==
  /\ pc \in {"loaded", "queried"}
  /\ job_id < MaxJobs
  /\ matches' = Query(ip, netflow)
  /\ result_set' = ReturnRows(matches')
  /\ job_id' = job_id + 1
  /\ pc' = "queried"
  /\ netflow' = LET gone == {m.e1[1] : m \in matches'} \cup {m.e2[1] : m \in matches'}
                IN  [r \in DOMAIN netflow \ gone |-> netflow[r]]
  /\ UNCHANGED <<df, ip>>

\* job = server.run_job(...); result_set = job.get_data_pandas()
RunJob ==
  /\ pc \in {"loaded", "queried"}
  /\ job_id < MaxJobs
  /\ matches' = Query(ip, netflow)
  /\ result_set' = ReturnRows(matches')
  /\ job_id' = job_id + 1
  /\ pc' = "queried"
  /\ UNCHANGED <<df, ip, netflow>>

Next == Insert \/ RunJob

Spec == Init /\ [][Next]_vars
\* ---------------------------------------------------------------- claims
StartTime(e) == e[1].StartTime
Dur(e) == e[1].Dur
Proto(e) == e[1].Proto

\* e1 and e2 are a directed two-cycle: e1 goes a->b and e2 goes b->a.
Reverse(e1, e2) == Target(e1) = Source(e2) /\ Target(e2) = Source(e1)

\* The four predicates as the contract words them.
Qualifies(e1, e2) ==
  /\ StartTime(e1) <= StartTime(e2)
  /\ Dur(e1) * duration_ratio_min < Dur(e2)
  /\ Proto(e1) = proto_first
  /\ Proto(e2) = proto_second

Swapped(m) == [a |-> m.b, e1 |-> m.e2, b |-> m.a, e2 |-> m.e1]

QualifyingPairs(a, b) ==
  {p \in Edges(netflow) \X Edges(netflow) :
     /\ p[1] /= p[2]
     /\ Source(p[1]) = a /\ Target(p[1]) = b
     /\ Source(p[2]) = b /\ Target(p[2]) = a
     /\ Qualifies(p[1], p[2])}

\* The number of returned rows for the node pair (a, b), equal rows counted.
RowsFor(a, b) ==
  LET rs == {r \in DOMAIN result_set : r.A = a /\ r.B = b}
  IN  IF rs = {} THEN 0 ELSE BagCardinality([r \in rs |-> result_set[r]])

C7_WellFormed ==
  /\ \A e \in Edges(netflow) : BagIn(Source(e), ip) /\ BagIn(Target(e), ip)
  /\ pc /= "schema" => \A k \in MentionedKeys(df) : BagIn(k, ip)
  /\ \A k \in DOMAIN ip : ip[k] = 1

\* Three rows were inserted, so some key is mentioned by several edges.
C7_Witness == pc = "loaded" /\ BagCardinality(netflow) = 3 /\ BagToSet(ip) = Addrs

\* C10 (no mirrored or self-paired match): no pair of edges satisfies the
\* WHERE clause in both orders, no edge satisfies it paired with itself,
\* and the swap of a match is never a match.
C10_NoMirror ==
  /\ \A e1 \in Edges(netflow), e2 \in Edges(netflow) :
       Where(e1, e2) => (e1 /= e2 /\ ~ Where(e2, e1))
  /\ \A m \in matches : Swapped(m) \notin matches

\* A job matched two self-loop edges with equal start times.
C10_Witness ==
  /\ pc = "queried"
  /\ \E m \in matches : m.a = m.b /\ StartTime(m.e1) = StartTime(m.e2)
====
